---- MODULE Spec2Model ----
(***************************************************************************)
(* Model of the ink! contract `todo` (src/lib.rs): a store of Task records *)
(* (tasks: Vec<Task>) with a saturating id counter (next_id: u32) and the  *)
(* messages add_task, complete_task, remove_task, get_tasks, get_task.     *)
(* The host serialises the calls, so each message is one atomic action.    *)
(***************************************************************************)
EXTENDS Integers, Sequences, FiniteSets

(* u32::MAX, scaled down so that the counter's saturation is reachable.    *)
U32_MAX == 3

(* The add_task calls explored: enough to issue every id 0..U32_MAX once   *)
(* and the maximum id a second time.                                       *)
MaxAdds == U32_MAX + 2

(* The description strings the callers pass.                               *)
Descriptions == {"Buy milk", "x"}

(* The u32 values a caller can pass as an id.                              *)
U32 == 0..U32_MAX

VARIABLES
    op,         \* the message last called ("new" right after construction)
    arg,        \* its argument
    ret,        \* its return value
    tasks,      \* Todo.tasks
    next_id,    \* Todo.next_id
    issued,     \* history: the ids returned by add_task, in call order
    born,       \* history: born[i] is the ordinal of the add_task call that created tasks[i]
    removed     \* history: removed[id] counts the remove_task(id) calls that returned true

vars == <<op, arg, ret, tasks, next_id, issued, born, removed>>

----------------------------------------------------------------------------
(* Option<T> *)
None == <<>>

Some(x) == <<x>>

(* u32::saturating_add *)
wrapping_add(a, b) == (a + b) % (U32_MAX + 1)

saturating_add_stuck(a, b) == a

saturating_add(a, b) == IF a + b > U32_MAX THEN U32_MAX ELSE a + b

(* Vec::push *)
VecPush(v, x) == Append(v, x)

(* Vec::remove(pos), pos counted from 0: the later elements shift left.    *)
VecSwapRemove(v, pos) ==
    LET last == v[Len(v)]
        w == [i \in 1..(Len(v) - 1) |-> v[i]]
    IN  IF pos + 1 = Len(v) THEN w ELSE [w EXCEPT ![pos + 1] = last]

VecTruncate(v, pos) == [i \in 1..pos |-> v[i]]

VecRemove(v, pos) ==
    [i \in 1..(Len(v) - 1) |-> IF i <= pos THEN v[i] ELSE v[i + 1]]

(* iter().position(|t| t.id == id): index (from 0) of the first match.     *)
PositionLast(v, id) ==
    LET hits == {i \in 1..Len(v) : v[i].id = id}
    IN  IF hits = {} THEN None
        ELSE Some((CHOOSE i \in hits : \A j \in hits : i >= j) - 1)

Position(v, id) ==
    LET hits == {i \in 1..Len(v) : v[i].id = id}
    IN  IF hits = {} THEN None
        ELSE Some((CHOOSE i \in hits : \A j \in hits : i <= j) - 1)

(* Task { id, description, completed: false } *)
Task(id, description) ==
    [id |-> id, description |-> description, completed |-> FALSE]

(* Todo::new *)
new == [tasks |-> <<>>, next_id |-> 0]

(* Todo::add_task: the store afterwards and the returned id.               *)
add_task_completed(self, description) ==
    LET id == self.next_id
    IN  [self |-> [tasks |-> VecPush(self.tasks,
                                     [Task(id, description) EXCEPT !.completed = TRUE]),
                   next_id |-> saturating_add(self.next_id, 1)],
         ret |-> id]

add_task_checked(self, description) ==
    LET id == self.next_id
    IN  IF Position(self.tasks, id) # None
        THEN [self |-> self, ret |-> id]
        ELSE [self |-> [tasks |-> VecPush(self.tasks, Task(id, description)),
                        next_id |-> saturating_add(self.next_id, 1)],
              ret |-> id]

add_task(self, description) ==
    LET id == self.next_id
        task == Task(id, description)
    IN  [self |-> [tasks |-> VecPush(self.tasks, task),
                   next_id |-> saturating_add(self.next_id, 1)],
         ret |-> id]

(* Todo::complete_task *)
complete_task_toggle(self, id) ==
    LET p == Position(self.tasks, id)
    IN  IF p # None
        THEN [self |-> [self EXCEPT !.tasks[p[1] + 1].completed = ~@], ret |-> TRUE]
        ELSE [self |-> self, ret |-> FALSE]

complete_task_all(self, id) ==
    IF Position(self.tasks, id) # None
    THEN [self |-> [self EXCEPT !.tasks =
                       [i \in 1..Len(self.tasks) |->
                          IF self.tasks[i].id = id
                          THEN [self.tasks[i] EXCEPT !.completed = TRUE]
                          ELSE self.tasks[i]]],
          ret |-> TRUE]
    ELSE [self |-> self, ret |-> FALSE]

complete_task_pending(self, id) ==
    LET p == Position(SelectSeq(self.tasks, LAMBDA t : ~t.completed), id)
        q == Position(self.tasks, id)
    IN  IF p # None /\ q # None
        THEN [self |-> [self EXCEPT !.tasks[q[1] + 1].completed = TRUE], ret |-> TRUE]
        ELSE [self |-> self, ret |-> FALSE]

complete_task(self, id) ==
    LET p == Position(self.tasks, id)
    IN  IF p # None
        THEN [self |-> [self EXCEPT !.tasks[p[1] + 1].completed = TRUE], ret |-> TRUE]
        ELSE [self |-> self, ret |-> FALSE]

(* Todo::remove_task *)
remove_task_reuse(self, id) ==
    LET p == Position(self.tasks, id)
    IN  IF p # None
        THEN [self |-> [tasks |-> VecRemove(self.tasks, p[1]), next_id |-> id],
              ret |-> TRUE]
        ELSE [self |-> self, ret |-> FALSE]

remove_task_keep(self, id) ==
    LET p == Position(self.tasks, id)
    IN  IF p # None
        THEN [self |-> self, ret |-> TRUE]
        ELSE [self |-> self, ret |-> FALSE]

remove_task_pop(self, id) ==
    LET p == Position(self.tasks, id)
    IN  IF p # None
        THEN [self |-> [self EXCEPT !.tasks = VecRemove(self.tasks, p[1])],
              ret |-> TRUE]
        ELSE [self |-> [self EXCEPT !.tasks =
                           IF self.tasks = <<>> THEN <<>>
                           ELSE VecRemove(self.tasks, Len(self.tasks) - 1)],
              ret |-> FALSE]

remove_task(self, id) ==
    LET p == Position(self.tasks, id)
    IN  IF p # None
        THEN [self |-> [self EXCEPT !.tasks = VecRemove(self.tasks, p[1])],
              ret |-> TRUE]
        ELSE [self |-> self, ret |-> FALSE]

(* Todo::get_tasks *)
get_tasks_pending(self) == SelectSeq(self.tasks, LAMBDA t : ~t.completed)

get_tasks(self) == self.tasks

(* Todo::get_task *)
get_task(self, id) ==
    LET p == Position(self.tasks, id)
    IN  IF p # None THEN Some(self.tasks[p[1] + 1]) ELSE None

----------------------------------------------------------------------------
(* The contract's storage in the current state.                            *)
Self == [tasks |-> tasks, next_id |-> next_id]

Init ==
    /\ op = "new"
    /\ arg = None
    /\ ret = None
    /\ tasks = new.tasks
    /\ next_id = new.next_id
    /\ issued = <<>>
    /\ born = <<>>
    /\ removed = [id \in U32 |-> 0]

AddTask ==
    /\ Len(issued) < MaxAdds
    /\ \E description \in Descriptions :
         LET r == add_task(Self, description)
         IN  /\ op' = "add_task"
             /\ arg' = description
             /\ ret' = r.ret
             /\ tasks' = r.self.tasks
             /\ next_id' = r.self.next_id
             /\ issued' = Append(issued, r.ret)
             /\ born' = VecPush(born, Len(issued) + 1)
             /\ UNCHANGED removed

CompleteTask ==
    \E id \in U32 :
      LET r == complete_task(Self, id)
      IN  /\ op' = "complete_task"
          /\ arg' = id
          /\ ret' = r.ret
          /\ tasks' = r.self.tasks
          /\ next_id' = r.self.next_id
          /\ UNCHANGED <<issued, born, removed>>

RemoveTask ==
    \E id \in U32 :
      LET r == remove_task(Self, id)
          p == Position(tasks, id)
      IN  /\ op' = "remove_task"
          /\ arg' = id
          /\ ret' = r.ret
          /\ tasks' = r.self.tasks
          /\ next_id' = r.self.next_id
          /\ born' = IF p # None THEN VecRemove(born, p[1]) ELSE born
          /\ removed' = IF r.ret THEN [removed EXCEPT ![id] = @ + 1] ELSE removed
          /\ UNCHANGED issued

GetTasks ==
    /\ op' = "get_tasks"
    /\ arg' = None
    /\ ret' = get_tasks(Self)
    /\ UNCHANGED <<tasks, next_id, issued, born, removed>>

GetTask ==
    \E id \in U32 :
      /\ op' = "get_task"
      /\ arg' = id
      /\ ret' = get_task(Self, id)
      /\ UNCHANGED <<tasks, next_id, issued, born, removed>>

Next == AddTask \/ CompleteTask \/ RemoveTask \/ GetTasks \/ GetTask

Spec == Init /\ [][Next]_vars

----------------------------------------------------------------------------
(* Helpers for the properties.                                             *)
Range(s) == {s[i] : i \in 1..Len(s)}

Count(s, x) == Cardinality({i \in 1..Len(s) : s[i] = x})

RECURSIVE SumTo(_, _)
SumTo(f, n) == IF n < 0 THEN 0 ELSE f[n] + SumTo(f, n - 1)

Held(id) == \E i \in 1..Len(tasks) : tasks[i].id = id

TypeOK ==
    /\ op \in {"new", "add_task", "complete_task", "remove_task", "get_tasks", "get_task"}
    /\ next_id \in U32
    /\ \A i \in 1..Len(tasks) :
         /\ tasks[i].id \in U32
         /\ tasks[i].description \in Descriptions
         /\ tasks[i].completed \in BOOLEAN
    /\ Len(born) = Len(tasks)

(* The three lookups of an id all report "not found" in the current state. *)
NotFound(id) ==
    /\ complete_task(Self, id).ret = FALSE
    /\ remove_task(Self, id).ret = FALSE
    /\ get_task(Self, id) = None

----------------------------------------------------------------------------
(* C1: while next_id is below the maximum u32 value, no two records held   *)
(* in the store have the same id.                                          *)
C1_UniqueIds ==
    next_id < U32_MAX =>
        \A i, j \in 1..Len(tasks) : tasks[i].id = tasks[j].id => i = j

C1_Witness ==
    /\ next_id < U32_MAX
    /\ op = "add_task"
    /\ Len(tasks) >= 2
    /\ tasks[1].id # tasks[2].id

(* C2: an add_task call made while next_id is below the maximum returns an *)
(* id that no earlier add_task call returned, removed records included.    *)
C2_NeverReissued ==
    [][(op' = "add_task" /\ next_id < U32_MAX) => ret' \notin Range(issued)]_vars

C2_Witness ==
    /\ op = "add_task"
    /\ ret < U32_MAX
    /\ ret >= 1
    /\ \E id \in U32 : removed[id] > 0

(* C3: while next_id is below the maximum, it is strictly greater than     *)
(* every id add_task has ever returned, hence than every id held.          *)
C3_NextIdAboveIssued ==
    next_id < U32_MAX =>
        /\ \A i \in 1..Len(issued) : issued[i] < next_id
        /\ \A i \in 1..Len(tasks) : tasks[i].id < next_id

C3_Witness ==
    /\ next_id < U32_MAX
    /\ Len(issued) >= 2
    /\ tasks = <<>>

(* C4: across every step, a record held with completed = TRUE that is      *)
(* still held afterwards has completed = TRUE.                             *)
C4_CompletedMonotone ==
    [][\A i \in 1..Len(tasks) : \A j \in 1..Len(tasks') :
          (born[i] = born'[j] /\ tasks[i].completed) => tasks'[j].completed]_vars

C4_Witness ==
    /\ op = "complete_task"
    /\ ret = TRUE
    /\ \E i \in 1..Len(tasks) : tasks[i].id # arg /\ tasks[i].completed

(* C5: add_task(x) called while next_id is below the maximum, followed by  *)
(* get_task of the returned id, yields Some(Task) with that id,            *)
(* description x and completed = FALSE.                                    *)
C5_AddThenGet ==
    [][(op' = "add_task" /\ next_id < U32_MAX) =>
          get_task(Self', ret') =
              Some([id |-> ret', description |-> arg', completed |-> FALSE])]_vars

C5_Witness ==
    /\ op = "add_task"
    /\ ret < U32_MAX
    /\ Len(tasks) >= 2
    /\ tasks[1].description # arg
    /\ tasks[1].completed

(* C6: complete_task(id) on a held id returns true, get_task(id) then      *)
(* shows completed = TRUE, and a second complete_task(id) returns true and *)
(* leaves the store exactly as the first call left it.                     *)
C6_CompleteIdempotent ==
    [][(op' = "complete_task" /\ Held(arg')) =>
          /\ ret' = TRUE
          /\ get_task(Self', arg') # None
          /\ get_task(Self', arg')[1].completed
          /\ complete_task(Self', arg') = [self |-> Self', ret |-> TRUE]]_vars

C6_Witness ==
    /\ op = "complete_task"
    /\ ret = TRUE
    /\ Len(tasks) >= 2
    /\ \E i \in 1..Len(tasks) : ~tasks[i].completed

(* C7 as stated: an id never returned by add_task, or one whose record has *)
(* been removed, is not found by complete_task, remove_task and get_task.  *)
C7_Original ==
    \A id \in U32 : (id \notin Range(issued) \/ removed[id] > 0) => NotFound(id)

(* C7: an id never returned by add_task, or one for which every record     *)
(* created with it has been removed, is not found by complete_task,        *)
(* remove_task and get_task.                                               *)
C7_NotFound ==
    \A id \in U32 : Count(issued, id) = removed[id] => NotFound(id)

C7_Witness ==
    /\ op = "get_task"
    /\ ret = None
    /\ removed[arg] > 0
    /\ Count(issued, arg) = removed[arg]
    /\ tasks # <<>>

(* C8 as stated: for every id, remove_task(id) returns true at most once.  *)
C8_Original ==
    \A id \in U32 : removed[id] <= 1

(* C8: for an id that add_task has returned exactly once, remove_task(id)  *)
(* returns true exactly when no earlier remove_task(id) returned true, so  *)
(* at most once and on the first call made while the record is held.       *)
C8_RemoveOnce ==
    [][(op' = "remove_task" /\ Count(issued, arg') = 1) =>
          /\ ret' = (removed[arg'] = 0)
          /\ ret' = Held(arg')
          /\ removed'[arg'] = 1]_vars

C8_Witness ==
    /\ op = "remove_task"
    /\ ret = FALSE
    /\ Count(issued, arg) = 1
    /\ removed[arg] = 1

(* C9: the length of get_tasks() is the number of add_task calls minus the *)
(* number of remove_task calls that returned true; complete_task,          *)
(* get_task, get_tasks and failed remove_task calls do not change it.      *)
C9_LengthLaw ==
    /\ [](Len(get_tasks(Self)) = Len(issued) - SumTo(removed, U32_MAX))
    /\ [][(\/ op' \in {"complete_task", "get_task", "get_tasks"}
           \/ (op' = "remove_task" /\ ret' = FALSE)) =>
             Len(get_tasks(Self')) = Len(get_tasks(Self))]_vars

C9_Witness ==
    /\ op = "remove_task"
    /\ ret = TRUE
    /\ Len(tasks) = 2
    /\ Len(issued) = MaxAdds
    /\ SumTo(removed, U32_MAX) = MaxAdds - 2

(* C10: get_tasks() lists the records in the order of their add_task       *)
(* calls, and while next_id is below the maximum the ids are strictly      *)
(* increasing along the sequence.                                          *)
C10_InsertionOrder ==
    \A i, j \in 1..Len(get_tasks(Self)) :
        i < j =>
            /\ born[i] < born[j]
            /\ next_id < U32_MAX => get_tasks(Self)[i].id < get_tasks(Self)[j].id

C10_Witness ==
    /\ Len(tasks) >= 2
    /\ born[2] > born[1] + 1
    /\ born[1] > 1
    /\ tasks[1].completed

(* The positions of the held records with the given id, and the first one. *)
Matches(id) == {i \in 1..Len(tasks) : tasks[i].id = id}

First(id) == CHOOSE i \in Matches(id) : \A j \in Matches(id) : i <= j

(* The sequence without its p-th element (p counted from 1).               *)
Without(v, p) == [i \in 1..(Len(v) - 1) |-> IF i < p THEN v[i] ELSE v[i + 1]]

(* C11: the k-th add_task call made before saturation returns k - 1,       *)
(* whatever calls are interleaved; the first two adds return 0 then 1.     *)
C11_KthAddReturns ==
    /\ \A k \in 1..Len(issued) :
         (next_id < U32_MAX \/ k <= U32_MAX) => issued[k] = k - 1
    /\ Len(issued) >= 2 => (issued[1] = 0 /\ issued[2] = 1)

C11_Witness ==
    /\ op = "add_task"
    /\ ret = 2
    /\ Len(issued) = 3
    /\ Len(tasks) = 1
    /\ removed[0] = 1

(* C12: next_id is 0 after new(), never decreases, grows by exactly 1 on   *)
(* every add_task while below the maximum, stays at the maximum on         *)
(* add_task once there, and is changed by no other message.                *)
C12_NextIdCounter ==
    /\ [](op = "new" => next_id = 0)
    /\ [][/\ next_id' >= next_id
          /\ op' = "add_task" =>
               next_id' = IF next_id < U32_MAX THEN next_id + 1 ELSE U32_MAX
          /\ op' # "add_task" => next_id' = next_id]_vars

C12_Witness ==
    /\ op = "add_task"
    /\ next_id = U32_MAX
    /\ Len(issued) = U32_MAX + 2
    /\ tasks[Len(tasks)].id = U32_MAX

(* C13: an add_task call made with next_id at the maximum still appends a  *)
(* record and leaves next_id there; once the maximum id has been issued it *)
(* returns the maximum id again, and if a record with that id is held, two *)
(* held records then share the id.                                         *)
C13_Exhaustion ==
    [][(op' = "add_task" /\ next_id = U32_MAX) =>
          /\ ret' = U32_MAX
          /\ next_id' = U32_MAX
          /\ Len(tasks') = Len(tasks) + 1
          /\ tasks'[Len(tasks')].id = U32_MAX
          /\ (U32_MAX \in Range(issued) /\ Held(U32_MAX)) =>
                \E i, j \in 1..Len(tasks') : i # j /\ tasks'[i].id = tasks'[j].id]_vars

C13_Witness ==
    /\ op = "add_task"
    /\ ret = U32_MAX
    /\ Cardinality(Matches(U32_MAX)) = 2

(* C14: a remove_task(id) that returns true deletes exactly one record,    *)
(* one with that id; every other record keeps its fields and its order,    *)
(* the later ones shifted left by one, and next_id is unchanged.           *)
C14_RemoveFrame ==
    [][(op' = "remove_task" /\ ret' = TRUE) =>
          /\ \E p \in 1..Len(tasks) :
               /\ tasks[p].id = arg'
               /\ tasks' = Without(tasks, p)
          /\ next_id' = next_id]_vars

C14_Witness ==
    /\ op = "remove_task"
    /\ ret = TRUE
    /\ Len(tasks) >= 2
    /\ tasks[1].id < arg
    /\ arg < tasks[2].id

(* C15: a complete_task(id) that returns true changes only the completed   *)
(* flag of one record with that id: length, positions, ids, descriptions,  *)
(* the other records' flags and next_id are unchanged.                     *)
C15_CompleteFrame ==
    [][(op' = "complete_task" /\ ret' = TRUE) =>
          /\ \E p \in 1..Len(tasks) :
               /\ tasks[p].id = arg'
               /\ tasks' = [tasks EXCEPT ![p].completed = TRUE]
          /\ next_id' = next_id]_vars

C15_Witness ==
    /\ op = "complete_task"
    /\ ret = TRUE
    /\ Len(tasks) >= 3
    /\ tasks[2].id = arg
    /\ ~tasks[1].completed
    /\ ~tasks[3].completed

(* C16: add_task only appends, in every state: the sequence grows by one,  *)
(* the new record is last with completed = FALSE and the given             *)
(* description, and every earlier record keeps its position and fields.    *)
C16_AddAppends ==
    [][op' = "add_task" =>
          /\ Len(tasks') = Len(tasks) + 1
          /\ tasks'[Len(tasks')].completed = FALSE
          /\ tasks'[Len(tasks')].description = arg'
          /\ \A i \in 1..Len(tasks) : tasks'[i] = tasks[i]]_vars

C16_Witness ==
    /\ op = "add_task"
    /\ Count(issued, U32_MAX) = 2
    /\ Len(tasks) >= 3
    /\ tasks[1].completed
    /\ tasks[1].description # arg

(* C17: a complete_task or remove_task call that returns false leaves the  *)
(* task sequence and next_id exactly as they were.                         *)
C17_NotFoundFrame ==
    [][(op' \in {"complete_task", "remove_task"} /\ ret' = FALSE) =>
          (tasks' = tasks /\ next_id' = next_id)]_vars

C17_Witness ==
    /\ op = "remove_task"
    /\ ret = FALSE
    /\ Len(tasks) >= 2
    /\ removed[arg] = 0

(* C18: get_tasks and get_task change neither the task sequence nor        *)
(* next_id; get_tasks returns the current sequence and get_task(id) a held *)
(* record with that id, or None when no record has it.                     *)
C18_PureReads ==
    [][/\ op' = "get_tasks" =>
            (tasks' = tasks /\ next_id' = next_id /\ ret' = tasks)
       /\ op' = "get_task" =>
            /\ tasks' = tasks
            /\ next_id' = next_id
            /\ IF Held(arg')
               THEN /\ Len(ret') = 1
                    /\ ret'[1].id = arg'
                    /\ \E i \in 1..Len(tasks) : ret'[1] = tasks[i]
               ELSE ret' = None]_vars

C18_Witness ==
    /\ op = "get_tasks"
    /\ Len(ret) >= 2
    /\ ret[1].completed
    /\ ~ret[2].completed

(* C19: for every id, get_task(id) is present, complete_task(id) would     *)
(* return true and remove_task(id) would return true exactly when some     *)
(* record of get_tasks() has that id.                                      *)
C19_LookupsAgree ==
    \A id \in U32 :
        LET listed == \E i \in 1..Len(get_tasks(Self)) : get_tasks(Self)[i].id = id
        IN  /\ (get_task(Self, id) # None) = listed
            /\ complete_task(Self, id).ret = listed
            /\ remove_task(Self, id).ret = listed

C19_Witness ==
    /\ op = "get_task"
    /\ ret # None
    /\ ret[1].completed
    /\ \E id \in U32 : id < next_id /\ ~Held(id)

(* C20: when two held records share an id, complete_task(id) sets the flag *)
(* of the earliest one only, remove_task(id) deletes the earliest one only *)
(* so that a following remove_task(id) returns true again, and             *)
(* get_task(id) returns the earliest one.                                  *)
C20_FirstMatchOnly ==
    [][(op' \in {"complete_task", "remove_task", "get_task"}
        /\ Cardinality(Matches(arg')) >= 2) =>
          /\ op' = "complete_task" =>
               tasks' = [tasks EXCEPT ![First(arg')].completed = TRUE]
          /\ op' = "remove_task" =>
               /\ tasks' = Without(tasks, First(arg'))
               /\ born' = Without(born, First(arg'))
               /\ remove_task(Self', arg').ret = TRUE
          /\ op' = "get_task" => ret' = Some(tasks[First(arg')])]_vars

C20_Witness ==
    /\ op = "remove_task"
    /\ ret = TRUE
    /\ arg = U32_MAX
    /\ Held(U32_MAX)
    /\ born[Len(born)] = MaxAdds

====
